---- MODULE Spec2Model ----
(***************************************************************************)
(* Model of server/server.js: a JSON file used as a database, the generic  *)
(* CRUD routes that setupCRUD registers for five collections, the hero     *)
(* singleton routes, the login check and the contact form route.           *)
(*                                                                         *)
(* A JSON object is a function from its keys to its values.  Every value   *)
(* of a record is a string; a JavaScript `undefined` is the value          *)
(* Undefined, which JSON.stringify drops together with its key.            *)
(***************************************************************************)
EXTENDS Integers, Sequences, FiniteSets, TLC

VARIABLES file, now, nreq, last, sends, req, pc, snap, running, lost

vars == <<file, now, nreq, last, sends, req, pc, snap, running, lost>>

srvVars == <<nreq, last, sends>>

loopVars == <<req, pc, snap, running, lost>>

(***************************************************************************)
(* Bounds                                                                  *)
(***************************************************************************)
MaxRequests == 2

MaxClock == 3

NClients == 2

(***************************************************************************)
(* JSON values                                                             *)
(***************************************************************************)
Resources == {"posts", "services", "metrics", "process", "messages"}

Undefined == "<undefined>"

NoRec == [k \in {} |-> ""]

\* { ...a, ...b }
Spread(a, b) ==
    [k \in (DOMAIN a) \cup (DOMAIN b) |-> IF k \in DOMAIN b THEN b[k] ELSE a[k]]

\* obj.k of a parsed JSON object
Get(obj, k) == IF k \in DOMAIN obj THEN obj[k] ELSE Undefined

\* v || "N/A" on a string or undefined
OrNA(v) == IF v = Undefined \/ v = "" THEN "N/A" ELSE v

\* JSON.stringify followed by JSON.parse of one object: undefined members go
StringifyObj(o) == [k \in {j \in DOMAIN o : o[j] # Undefined} |-> o[k]]

StringifyList(s) == [i \in 1..Len(s) |-> StringifyObj(s[i])]

\* a clock read in units of two milliseconds
DateNowCoarse(t) == ToString(t \div 2)

\* Date.now().toString()
DateNowToString(t) == ToString(t)

\* new Date().toISOString() at t milliseconds after the epoch, t < 1000
toISOString(t) ==
    "1970-01-01T00:00:00."
        \o (IF t < 10 THEN "00" ELSE IF t < 100 THEN "0" ELSE "")
        \o ToString(t) \o "Z"

\* Error.prototype has no toISOString: calling it throws a TypeError
ErrorToISOStringThrows == TRUE

(***************************************************************************)
(* The document on disk                                                    *)
(***************************************************************************)
\* readDB: the parsed document
readDB(f) == f

\* writeDB: what a later readDB gets back from JSON.stringify(data, null, 2)
writeDB(data) ==
    [f \in DOMAIN data |->
        IF f \in Resources THEN StringifyList(data[f]) ELSE StringifyObj(data[f])]

Rec1 == [id |-> "1", created_at |-> toISOString(1), title |-> "Hello"]

Rec2 == [id |-> "2", created_at |-> toISOString(2), title |-> "World"]

SeedHero == [headline |-> "Welcome"]

SeedAdmin == [username |-> "admin", password |-> "secret"]

SeedDoc(populated) ==
    [f \in Resources \cup {"hero", "admin"} |->
        IF f = "hero" THEN SeedHero
        ELSE IF f = "admin" THEN SeedAdmin
        ELSE IF f \in populated THEN <<Rec1, Rec2>> ELSE <<>>]

(***************************************************************************)
(* Request inputs                                                          *)
(***************************************************************************)
PathIds == {"1", "2", "9"}

CreateBodies == {[title |-> "Hello"]}

UpdateBodies ==
    {[title |-> "Updated"], [id |-> "2"], [created_at |-> toISOString(0)]}

HeroBodies == {[headline |-> "New"], [tagline |-> "Fast"]}

LoginBodies ==
    {[username |-> "admin", password |-> "secret"],
     [username |-> "admin", password |-> "guess"]}

ContactBodies ==
    {[name |-> "Ann", email |-> "ann@x.org", message |-> "Hi"],
     [name |-> "Ann", email |-> "ann@x.org", message |-> "Hi",
      phone |-> "", company |-> ""],
     [name |-> "Bob", phone |-> "555", company |-> "Acme"]}

\* how the file system answers one request: readFileSync throws (the file is
\* missing or unreadable), or writeFileSync throws on opening the file
IOOutcomes == {"ok", "readFails", "writeFails"}

\* the same for a handler that never calls writeDB
ReadOutcomes == {"ok", "readFails"}

\* the documents the server is started on
SeedPopulated == {{"posts", "services", "messages"}}

(***************************************************************************)
(* What each handler computes from the document it read                    *)
(***************************************************************************)
\* const newItem = { id: Date.now().toString(), ...req.body, created_at: new Error().toISOString() }
NewItem(body, t) ==
    IF ErrorToISOStringThrows
    THEN [thrown |-> TRUE, item |-> NoRec]
    ELSE [thrown |-> FALSE,
          item |-> Spread(Spread([id |-> DateNowToString(t)], body),
                          [created_at |-> toISOString(t)])]

\* db[resource].push(newItem); every resource setupCRUD is given holds an
\* array, so the singleton branch of the handler is never taken
CreateDoc(db, resource, item) ==
    [db EXCEPT ![resource] = Append(@, item)]

\* findIndex whose -1 is taken for an index from the end
findIndexFromEnd(list, id) ==
    IF \E i \in 1..Len(list) : Get(list[i], "id") = id
    THEN CHOOSE i \in 1..Len(list) :
            /\ Get(list[i], "id") = id
            /\ \A j \in 1..(i - 1) : Get(list[j], "id") # id
    ELSE Len(list)

\* db[resource].findIndex(item => item.id === id); 0 stands for -1
findIndex(list, id) ==
    IF \E i \in 1..Len(list) : Get(list[i], "id") = id
    THEN CHOOSE i \in 1..Len(list) :
            /\ Get(list[i], "id") = id
            /\ \A j \in 1..(i - 1) : Get(list[j], "id") # id
    ELSE 0

\* an update that stores the body in place of the record
UpdateReplace(db, resource, index, body) ==
    [db EXCEPT ![resource][index] = body]

\* an update that also stamps the record
UpdateTouch(db, resource, index, body) ==
    [db EXCEPT ![resource][index] =
        Spread(Spread(@, body), [created_at |-> toISOString(0)])]

\* db[resource][index] = { ...db[resource][index], ...req.body }
UpdateDoc(db, resource, index, body) ==
    [db EXCEPT ![resource][index] = Spread(@, body)]

\* db[resource].splice(findIndex, 1): a -1 removes the last record
DeleteSplice(db, resource, id) ==
    LET list == db[resource]
        found == {i \in 1..Len(list) : Get(list[i], "id") = id}
        at == IF found = {} THEN Len(list)
              ELSE CHOOSE i \in found : \A j \in found : i <= j
    IN  [db EXCEPT ![resource] =
            [k \in 1..(IF Len(list) = 0 THEN 0 ELSE Len(list) - 1) |->
                IF k < at THEN list[k] ELSE list[k + 1]]]

\* a filter run over every collection of the document
DeleteEverywhere(db, resource, id) ==
    [f \in DOMAIN db |->
        IF f \in Resources
        THEN SelectSeq(db[f], LAMBDA item : Get(item, "id") # id)
        ELSE db[f]]

\* db[resource] = db[resource].filter(item => item.id !== id)
DeleteDoc(db, resource, id) ==
    [db EXCEPT ![resource] = SelectSeq(@, LAMBDA item : Get(item, "id") # id)]

\* db.hero = { ...db.hero, ...req.body }
HeroDoc(db, body) == [db EXCEPT !["hero"] = Spread(@, body)]

\* const newMessage = { id, name, phone: phone || "N/A", ... }
NewMessage(body, t) ==
    [id |-> DateNowToString(t),
     name |-> Get(body, "name"),
     phone |-> OrNA(Get(body, "phone")),
     email |-> Get(body, "email"),
     company |-> OrNA(Get(body, "company")),
     message |-> Get(body, "message"),
     created_at |-> toISOString(t)]

\* db.messages.push(newMessage)
ContactDoc(db, body, t) ==
    [db EXCEPT !["messages"] = Append(@, NewMessage(body, t))]

(***************************************************************************)
(* The server: one action per route handler.  Every handler makes          *)
(* synchronous calls only (readFileSync, writeFileSync), so it runs from   *)
(* its read to its response in one turn of the event loop.                 *)
(***************************************************************************)
\* JSON.parse(fs.readFileSync(...)) throws on a missing or unparsable file
ReadThrows(io) == io = "readFails"

WriteThrows(io) == io = "writeFails"

\* the request just answered and its answer; `again` records that the request
\* before it was the same operation on the same resource and id
Response(op, resource, id, body, fault, status, item, list) ==
    [op |-> op, res |-> resource, id |-> id, body |-> body, fault |-> fault,
     status |-> status, item |-> item, list |-> list,
     again |-> /\ last.op = op /\ last.res = resource /\ last.id = id
               /\ last.fault = "none" /\ fault = "none"]

\* a handler that ends without reaching writeDB
ReplyNoWrite(op, resource, id, body, fault, status, item, list) ==
    /\ last' = Response(op, resource, id, body, fault, status, item, list)
    /\ UNCHANGED file

\* a handler that calls writeDB(db) and, if that returns, responds
ReplyWrite(op, resource, id, body, io, db, okItem, errStatus, errItem) ==
    IF WriteThrows(io)
    THEN /\ last' = Response(op, resource, id, body, "write", errStatus, errItem, <<>>)
         /\ UNCHANGED file
    ELSE /\ last' = Response(op, resource, id, body, "none", 200, okItem, <<>>)
         /\ file' = writeDB(db)

Login(body, io) ==
    /\ nreq < MaxRequests
    /\ nreq' = nreq + 1
    /\ IF ReadThrows(io)
       THEN ReplyNoWrite("login", "admin", "", body, "read", 500, NoRec, <<>>)
       ELSE LET db == readDB(file) IN
            IF /\ db["admin"]["username"] = Get(body, "username")
               /\ db["admin"]["password"] = Get(body, "password")
            THEN ReplyNoWrite("login", "admin", "", body, "none", 200,
                              [success |-> "true"], <<>>)
            ELSE ReplyNoWrite("login", "admin", "", body, "none", 401,
                              [success |-> "false", message |-> "Invalid credentials"],
                              <<>>)
    /\ UNCHANGED <<now, sends, loopVars>>

List(resource, io) ==
    /\ nreq < MaxRequests
    /\ nreq' = nreq + 1
    /\ IF ReadThrows(io)
       THEN ReplyNoWrite("list", resource, "", NoRec, "read", 500, NoRec, <<>>)
       ELSE ReplyNoWrite("list", resource, "", NoRec, "none", 200, NoRec,
                         readDB(file)[resource])
    /\ UNCHANGED <<now, sends, loopVars>>

Create(resource, body, io) ==
    /\ nreq < MaxRequests
    /\ nreq' = nreq + 1
    /\ IF ReadThrows(io)
       THEN ReplyNoWrite("create", resource, "", body, "read", 500, NoRec, <<>>)
       ELSE LET db == readDB(file)
                made == NewItem(body, now)
            IN  IF made.thrown
                THEN ReplyNoWrite("create", resource, "", body, "none", 500, NoRec, <<>>)
                ELSE ReplyWrite("create", resource, "", body, io,
                                CreateDoc(db, resource, made.item),
                                StringifyObj(made.item), 500, NoRec)
    /\ UNCHANGED <<now, sends, loopVars>>

Update(resource, id, body, io) ==
    /\ nreq < MaxRequests
    /\ nreq' = nreq + 1
    /\ IF ReadThrows(io)
       THEN ReplyNoWrite("update", resource, id, body, "read", 500, NoRec, <<>>)
       ELSE LET db == readDB(file)
                index == findIndex(db[resource], id)
            IN  IF index # 0
                THEN LET merged == UpdateDoc(db, resource, index, body) IN
                     ReplyWrite("update", resource, id, body, io, merged,
                                StringifyObj(merged[resource][index]), 500, NoRec)
                ELSE ReplyNoWrite("update", resource, id, body, "none", 404,
                                  [error |-> "Not found"], <<>>)
    /\ UNCHANGED <<now, sends, loopVars>>

Delete(resource, id, io) ==
    /\ nreq < MaxRequests
    /\ nreq' = nreq + 1
    /\ IF ReadThrows(io)
       THEN ReplyNoWrite("delete", resource, id, NoRec, "read", 500, NoRec, <<>>)
       ELSE ReplyWrite("delete", resource, id, NoRec, io,
                       DeleteDoc(readDB(file), resource, id),
                       [success |-> "true"], 500, NoRec)
    /\ UNCHANGED <<now, sends, loopVars>>

HeroGet(io) ==
    /\ nreq < MaxRequests
    /\ nreq' = nreq + 1
    /\ IF ReadThrows(io)
       THEN ReplyNoWrite("heroGet", "hero", "", NoRec, "read", 500, NoRec, <<>>)
       ELSE ReplyNoWrite("heroGet", "hero", "", NoRec, "none", 200,
                         readDB(file)["hero"], <<>>)
    /\ UNCHANGED <<now, sends, loopVars>>

HeroPut(body, io) ==
    /\ nreq < MaxRequests
    /\ nreq' = nreq + 1
    /\ IF ReadThrows(io)
       THEN ReplyNoWrite("heroPut", "hero", "", body, "read", 500, NoRec, <<>>)
       ELSE LET merged == HeroDoc(readDB(file), body) IN
            ReplyWrite("heroPut", "hero", "", body, io, merged,
                       StringifyObj(merged["hero"]), 500, NoRec)
    /\ UNCHANGED <<now, sends, loopVars>>

\* transporter.sendMail(mailOptions, callback): one more send in flight
sendMail(queue, id) == Append(queue, [msg |-> id, outcome |-> "pending"])

\* the mail sent before the store is written
ContactSendsFirst(io, queue, id) == sendMail(queue, id)

\* writeDB(db) comes before sendMail inside the try block: a throw skips it
ContactSends(io, queue, id) ==
    IF WriteThrows(io) THEN queue ELSE sendMail(queue, id)

SubmissionFailed == [success |-> "false", message |-> "Submission failed"]

\* try { readDB; push; writeDB; sendMail(callback); res.status(200) }
\* catch { res.status(500) }
\* Date.now() reads the wall clock, which has moved on by dt milliseconds
\* since it was last read
Contact(body, io, dt) ==
    /\ nreq < MaxRequests
    /\ nreq' = nreq + 1
    /\ now + dt <= MaxClock
    /\ now' = now + dt
    /\ IF ReadThrows(io)
       THEN /\ ReplyNoWrite("contact", "messages", "", body, "read", 500,
                            SubmissionFailed, <<>>)
            /\ UNCHANGED sends
       ELSE /\ ReplyWrite("contact", "messages", DateNowToString(now'), body, io,
                          ContactDoc(readDB(file), body, now'),
                          [success |-> "true", message |-> "Message received"],
                          500, SubmissionFailed)
            /\ sends' = ContactSends(io, sends, DateNowToString(now'))
    /\ UNCHANGED loopVars

\* transporter.sendMail's callback: logs the outcome, nothing else
MailCallback(i, outcome) ==
    /\ i \in 1..Len(sends)
    /\ sends[i].outcome = "pending"
    /\ sends' = [sends EXCEPT ![i].outcome = outcome]
    /\ UNCHANGED <<file, now, nreq, last, loopVars>>

Idle ==
    [op |-> "none", res |-> "", id |-> "", body |-> NoRec, fault |-> "none",
     status |-> 0, item |-> NoRec, list |-> <<>>, again |-> FALSE]

Init ==
    /\ \E populated \in SeedPopulated : file = SeedDoc(populated)
    /\ now = 2
    /\ nreq = 0
    /\ last = Idle
    /\ sends = <<>>
    /\ req = <<>>
    /\ pc = <<>>
    /\ snap = <<>>
    /\ running = 0
    /\ lost = {}

Next ==
    \/ \E body \in LoginBodies, io \in ReadOutcomes : Login(body, io)
    \/ \E resource \in Resources, io \in ReadOutcomes : List(resource, io)
    \/ \E resource \in Resources, body \in CreateBodies, io \in ReadOutcomes :
          Create(resource, body, io)
    \/ \E resource \in Resources, id \in PathIds, body \in UpdateBodies,
          io \in IOOutcomes : Update(resource, id, body, io)
    \/ \E resource \in Resources, id \in PathIds, io \in IOOutcomes :
          Delete(resource, id, io)
    \/ \E io \in ReadOutcomes : HeroGet(io)
    \/ \E body \in HeroBodies, io \in IOOutcomes : HeroPut(body, io)
    \/ \E body \in ContactBodies, io \in IOOutcomes, dt \in {0, 1} :
          Contact(body, io, dt)
    \/ \E i \in 1..MaxRequests, outcome \in {"sent", "failed"} :
          MailCallback(i, outcome)

Spec == Init /\ [][Next]_vars

(***************************************************************************)
(* The event loop: NClients requests are in flight at once.  A handler is  *)
(* one callback; it reads the file with readFileSync and writes it with    *)
(* writeFileSync, so it is shown here in two steps, the read and the       *)
(* write, with the rule that decides whether another callback may run in   *)
(* between.                                                                *)
(***************************************************************************)
Clients == 1..NClients

LoopRequests ==
    {[op |-> "update", res |-> "posts", id |-> "1", body |-> [title |-> "Updated"]],
     [op |-> "update", res |-> "messages", id |-> "9", body |-> [title |-> "Updated"]],
     [op |-> "delete", res |-> "posts", id |-> "2", body |-> NoRec],
     [op |-> "delete", res |-> "services", id |-> "1", body |-> NoRec],
     [op |-> "create", res |-> "metrics", id |-> "", body |-> [title |-> "Hello"]],
     [op |-> "heroPut", res |-> "hero", id |-> "", body |-> [headline |-> "New"]],
     [op |-> "contact", res |-> "messages", id |-> "",
      body |-> [name |-> "Ann", email |-> "ann@x.org", message |-> "Hi"]]}

\* the document a mutating handler passes to writeDB, if it gets that far
Handler(rq, db, t) ==
    CASE rq.op = "create" ->
            LET made == NewItem(rq.body, t) IN
            IF made.thrown THEN [writes |-> FALSE, db |-> db]
            ELSE [writes |-> TRUE, db |-> CreateDoc(db, rq.res, made.item)]
      [] rq.op = "update" ->
            LET index == findIndex(db[rq.res], rq.id) IN
            IF index # 0
            THEN [writes |-> TRUE, db |-> UpdateDoc(db, rq.res, index, rq.body)]
            ELSE [writes |-> FALSE, db |-> db]
      [] rq.op = "delete" ->
            [writes |-> TRUE, db |-> DeleteDoc(db, rq.res, rq.id)]
      [] rq.op = "heroPut" ->
            [writes |-> TRUE, db |-> HeroDoc(db, rq.body)]
      [] OTHER ->
            [writes |-> TRUE, db |-> ContactDoc(db, rq.body, t)]

\* a callback that yields between its read and its write
CanRunAnytime(c) == TRUE

\* readFileSync and writeFileSync block: from its read to its write a
\* handler is one callback, and no other callback runs until it returns
CanRun(c) == running \in {0, c}

\* const db = readDB()
HandlerReads(c) ==
    /\ pc[c] = "queued"
    /\ CanRun(c)
    /\ snap' = [snap EXCEPT ![c] = readDB(file)]
    /\ pc' = [pc EXCEPT ![c] = "read"]
    /\ running' = c
    /\ UNCHANGED <<file, now, srvVars, req, lost>>

\* the rest of the handler: the change, writeDB(db), the response.  lost
\* records a write made from a document that another request has changed
\* since this one read it: "same" when the change was to the field this
\* request writes, "other" when it was to another field.
HandlerWrites(c) ==
    /\ pc[c] = "read"
    /\ CanRun(c)
    /\ LET h == Handler(req[c], snap[c], now) IN
       /\ file' = IF h.writes THEN writeDB(h.db) ELSE file
       /\ lost' = lost
            \cup (IF h.writes /\ snap[c][req[c].res] # file[req[c].res]
                  THEN {"same"} ELSE {})
            \cup (IF h.writes /\ \E f \in DOMAIN file :
                                    f # req[c].res /\ snap[c][f] # file[f]
                  THEN {"other"} ELSE {})
       /\ sends' = IF h.writes /\ req[c].op = "contact"
                   THEN sendMail(sends, DateNowToString(now)) ELSE sends
    /\ pc' = [pc EXCEPT ![c] = "done"]
    /\ running' = 0
    /\ UNCHANGED <<now, nreq, last, req, snap>>

LoopInit ==
    /\ file = SeedDoc(Resources)
    /\ now = 2
    /\ nreq = 0
    /\ last = Idle
    /\ sends = <<>>
    /\ req \in [Clients -> LoopRequests]
    /\ pc = [c \in Clients |-> "queued"]
    /\ snap = [c \in Clients |-> file]
    /\ running = 0
    /\ lost = {}

LoopNext ==
    \/ \E c \in Clients : HandlerReads(c)
    \/ \E c \in Clients : HandlerWrites(c)

\* the event loop runs every callback that is queued
LoopSpec == LoopInit /\ [][LoopNext]_vars /\ WF_vars(LoopNext)

(***************************************************************************)
(* Properties.  A step is a request of kind op when it answers one more    *)
(* request and the answer recorded is for op.                              *)
(***************************************************************************)
Request(op) == nreq' = nreq + 1 /\ last'.op = op

HasId(list, id) == \E i \in 1..Len(list) : Get(list[i], "id") = id

FirstWithId(list, id) ==
    CHOOSE i \in 1..Len(list) :
        /\ Get(list[i], "id") = id
        /\ \A j \in 1..(i - 1) : Get(list[j], "id") # id

DistinctIds(list) ==
    \A i, j \in 1..Len(list) : i # j => Get(list[i], "id") # Get(list[j], "id")

WithoutId(list, id) == SelectSeq(list, LAMBDA item : Get(item, "id") # id)

IsPrefix(old, new) ==
    /\ Len(new) = Len(old) + 1
    /\ \A i \in 1..Len(old) : new[i] = old[i]

\* C1: a Create whose file accesses succeed answers 200 with a record that
\* carries the submitted fields, a non-empty id and a created_at, and the
\* collection a List returns afterwards contains that record.
C1_CreateThenList ==
    (last.op = "create" /\ last.fault = "none") =>
        /\ last.status = 200
        /\ \A k \in DOMAIN last.body : Get(last.item, k) = last.body[k]
        /\ Get(last.item, "id") \notin {Undefined, ""}
        /\ "created_at" \in DOMAIN last.item
        /\ \E i \in 1..Len(file[last.res]) : file[last.res][i] = last.item

\* C2: an Update whose id matches no record of the collection (and whose read
\* of the file succeeds) answers 404 and leaves the document as it was.
C2_UpdateNotFound ==
    [][(/\ Request("update")
        /\ last'.fault # "read"
        /\ ~HasId(file[last'.res], last'.id))
       => (/\ last'.status = 404
           /\ last'.item = [error |-> "Not found"]
           /\ file' = file)]_vars

C2_Witness ==
    /\ last.op = "update"
    /\ last.status = 404
    /\ Len(file[last.res]) = 2
    /\ ~HasId(file[last.res], last.id)

\* C3: an Update on an existing id (file accesses succeeding) answers 200 with
\* the merged record: the first record with that id keeps its position, has
\* the keys of the old record and of the body, takes the body's value for
\* every key of the body and keeps the old value for every other key (so id
\* and created_at stay when the body does not name them); no other record
\* changes.
C3_UpdateMerges ==
    [][(/\ Request("update")
        /\ last'.fault = "none"
        /\ HasId(file[last'.res], last'.id))
       => LET old == file[last'.res]
              new == file'[last'.res]
              i == FirstWithId(old, last'.id)
              body == last'.body
          IN  /\ last'.status = 200
              /\ Len(new) = Len(old)
              /\ \A j \in 1..Len(old) : j # i => new[j] = old[j]
              /\ DOMAIN new[i] = (DOMAIN old[i]) \cup (DOMAIN body)
              /\ \A k \in DOMAIN body : new[i][k] = body[k]
              /\ \A k \in (DOMAIN old[i]) \ (DOMAIN body) : new[i][k] = old[i][k]
              /\ last'.item = new[i]]_vars

C3_Witness ==
    /\ last.op = "update"
    /\ last.status = 200
    /\ last.id = "2"
    /\ last.body = [title |-> "Updated"]
    /\ last.item = [id |-> "2", created_at |-> toISOString(2), title |-> "Updated"]
    /\ file[last.res] = <<Rec1, last.item>>

\* C4: a Delete whose file accesses succeed answers 200 {success: true}; when
\* it repeats the Delete just before it (same resource, same id) it leaves
\* the document as the first one left it; and when no record has the id it
\* leaves the document unchanged.
C4_DeleteIdempotent ==
    [][(Request("delete") /\ last'.fault = "none")
       => (/\ last'.status = 200
           /\ last'.item = [success |-> "true"]
           /\ (/\ last.op = "delete" /\ last.fault = "none"
               /\ last.res = last'.res /\ last.id = last'.id) => file' = file
           /\ ~HasId(file[last'.res], last'.id) => file' = file)]_vars

C4_Witness ==
    /\ last.op = "delete"
    /\ last.again
    /\ last.status = 200
    /\ last.id = "2"
    /\ file[last.res] = <<Rec1>>

\* C5 as claimed: in every reachable document, every collection has pairwise
\* distinct record ids.
C5_UniqueIds == \A r \in Resources : DistinctIds(file[r])

IdRewritten(r) ==
    Request("update") /\ last'.res = r /\ "id" \in DOMAIN last'.body

SameTick(r) ==
    Request("contact") /\ r = "messages" /\ HasId(file[r], ToString(now'))

\* C5 as amended: a step keeps the ids of a collection pairwise distinct,
\* unless it is an Update on it whose body names id, or a Contact submission
\* at a clock reading that is already the id of a stored message.
C5_UniqueIdsKept ==
    [][\A r \in Resources :
          (DistinctIds(file[r]) /\ ~IdRewritten(r) /\ ~SameTick(r))
              => DistinctIds(file'[r])]_vars

C5_Witness ==
    /\ last.op = "contact"
    /\ last.status = 200
    /\ Len(file["messages"]) = 3
    /\ DistinctIds(file["messages"])
    /\ Get(file["messages"][3], "id") = "3"

\* the records of old that are still in new have the created_at they had
KeepsCreatedAt(old, new) ==
    \/ /\ Len(new) >= Len(old)
       /\ \A i \in 1..Len(old) :
             Get(new[i], "created_at") = Get(old[i], "created_at")
    \/ Request("delete") /\ new = WithoutId(old, last'.id)

StampsNewMessage ==
    (Request("contact") /\ last'.fault = "none")
        => LET new == file'["messages"] IN
           /\ IsPrefix(file["messages"], new)
           /\ Get(new[Len(new)], "created_at") # Undefined

\* C6 as claimed: a Contact submission stamps the message it stores, and no
\* step changes the created_at of a record that is already stored.
C6_CreatedAtNeverChanges ==
    [][/\ StampsNewMessage
       /\ \A r \in Resources : KeepsCreatedAt(file[r], file'[r])]_vars

CreatedAtRewritten(r) ==
    Request("update") /\ last'.res = r /\ "created_at" \in DOMAIN last'.body

\* C6 as amended: a Contact submission stamps the message it stores, and no
\* step changes the created_at of a stored record, except an Update whose
\* body names created_at.
C6_CreatedAtKept ==
    [][/\ StampsNewMessage
       /\ \A r \in Resources :
             CreatedAtRewritten(r) \/ KeepsCreatedAt(file[r], file'[r])]_vars

C6_Witness ==
    /\ last.op = "update"
    /\ last.status = 200
    /\ last.id = "1"
    /\ last.body = [id |-> "2"]
    /\ Get(last.item, "created_at") = toISOString(1)
    /\ file[last.res][1] = last.item

\* C7: a Contact submission whose file accesses succeed stores the message,
\* starts exactly one send for it and answers 200 {success: true}; one whose
\* read or write throws answers 500 {success: false}, stores nothing and
\* starts no send; and the outcome of a send, success or failure, changes
\* neither the document, nor the answer given, nor the sends started.
C7_ContactThenMail ==
    [][/\ (Request("contact") /\ last'.fault = "none")
            => /\ last'.status = 200
               /\ Get(last'.item, "success") = "true"
               /\ IsPrefix(file["messages"], file'["messages"])
               /\ Get(file'["messages"][Len(file'["messages"])], "id") = last'.id
               /\ IsPrefix(sends, sends')
               /\ sends'[Len(sends')] = [msg |-> last'.id, outcome |-> "pending"]
       /\ (Request("contact") /\ last'.fault # "none")
            => /\ last'.status = 500
               /\ Get(last'.item, "success") = "false"
               /\ file' = file
               /\ sends' = sends
       /\ (nreq' = nreq /\ sends' # sends)
            => /\ file' = file
               /\ last' = last
               /\ Len(sends') = Len(sends)
               /\ \A i \in 1..Len(sends) : sends'[i].msg = sends[i].msg]_vars

C7_Witness ==
    /\ last.op = "contact"
    /\ last.status = 200
    /\ \E i \in 1..Len(sends) :
          /\ sends[i].outcome = "failed"
          /\ sends[i].msg = last.id
          /\ HasId(file["messages"], sends[i].msg)

\* C8: a Create and a Contact submission whose file accesses succeed append
\* one record at the end of the collection, and a Delete leaves exactly the
\* records whose id differs from the given id, in the order they had.
C8_InsertionOrder ==
    [][/\ (Request("create") /\ last'.fault = "none")
            => IsPrefix(file[last'.res], file'[last'.res])
       /\ (Request("contact") /\ last'.fault = "none")
            => IsPrefix(file["messages"], file'["messages"])
       /\ (Request("delete") /\ last'.fault = "none")
            => file'[last'.res] = WithoutId(file[last'.res], last'.id)]_vars

\* C10: a Create, Update or Delete on a resource changes no other top-level
\* field of the document, a Hero Update changes none but hero, a Contact
\* submission none but messages, and a List, a Singleton Read and a Login
\* change none; no step adds or removes a top-level field.
C10_Frame ==
    [][LET Only(field) ==
              \A f \in DOMAIN file : f # field => file'[f] = file[f]
       IN  /\ DOMAIN file' = DOMAIN file
           /\ (Request("create") \/ Request("update") \/ Request("delete"))
                => Only(last'.res)
           /\ Request("heroPut") => Only("hero")
           /\ Request("contact") => Only("messages")
           /\ (Request("list") \/ Request("heroGet") \/ Request("login"))
                => file' = file]_vars

C10_Witness ==
    /\ last.op = "delete"
    /\ last.res = "posts"
    /\ file["posts"] = <<Rec1>>
    /\ file["messages"] = <<Rec1, Rec2>>
    /\ file["hero"] = SeedHero
    /\ file["admin"] = SeedAdmin

====
